---- MODULE Spec2Model ----
(***************************************************************************)
(* Tumor progression simulator (src/app.py): the scenario table, the ODE   *)
(* right-hand side tumor_dynamics, the results loop that integrates every  *)
(* selected scenario, and the totals / proportions derived from results.   *)
(*                                                                         *)
(* Numbers.  The script computes in IEEE doubles; here every real is a     *)
(* fixed-point integer counting units of 1/Scale, and every product and    *)
(* quotient is rounded toward zero to that unit, as a float operation is   *)
(* rounded to its last place.  TLC's integers are 32 bits wide, so Mul and *)
(* Div split their operands to keep the intermediate values in range.      *)
(*                                                                         *)
(* Integrator.  solve_ivp is scipy's; the script only calls it.  It is     *)
(* modelled by its contract (on success t is t_eval and y holds one column *)
(* per sample, status 0; on a failed step it returns the samples reached   *)
(* so far with status -1) and its numbers by the classical fourth-order    *)
(* Runge-Kutta scheme stepped from one sample time to the next.            *)
(***************************************************************************)
EXTENDS Integers, Sequences, FiniteSets, TLC

\* ------------------------------------------------------------ bounds
\* Longest selection of scenario names handed to the run.
MaxSel == 2
\* Most samples a failing solver call hands back.
MaxReached == 2
\* Grid of state vectors handed to tumor_dynamics: 0..MaxGrid steps a component.
MaxGrid == 4
\* Longest trajectory handed to the proportions computation on its own.
MaxCols == 3

\* ------------------------------------------------------ fixed point
\* The unit is 10^-6; Half is its square root, where Mul and Div split.
Half == 10 * 100
Scale == Half * Half

Abs(a) == IF a < 0 THEN -a ELSE a

\* a * b / Scale for a, b >= 0, rounded down.
MulNN(a, b) ==
  LET a1 == a \div Half
      a0 == a % Half
      b1 == b \div Half
      b0 == b % Half
  IN a1 * b1 + ((a1 * b0 + a0 * b1 + ((a0 * b0) \div Half)) \div Half)

\* The product of two fixed-point numbers, rounded toward zero.
Mul(a, b) ==
  IF (a < 0) = (b < 0) THEN MulNN(Abs(a), Abs(b)) ELSE -MulNN(Abs(a), Abs(b))

\* a * Scale / b for a >= 0, b > 0, rounded down.
DivNN(a, b) ==
  LET q == a \div b
      r1 == (a % b) * Half
      d1 == r1 \div b
      r2 == (r1 % b) * Half
      d2 == r2 \div b
  IN q * Scale + d1 * Half + d2

\* The quotient of two fixed-point numbers (b # 0), rounded toward zero.
Div(a, b) ==
  IF (a < 0) = (b < 0) THEN DivNN(Abs(a), Abs(b)) ELSE -DivNN(Abs(a), Abs(b))

\* An integer quotient rounded toward zero.
Quot(a, n) == IF a < 0 THEN -((-a) \div n) ELSE a \div n

Idx == 1..3

\* ---------------------------------------------------- scenario table
S1 == "Scenario 1: Sensitive + High therapy"
S2 == "Scenario 2: Partially resistant + Medium therapy"
S3 == "Scenario 3: High resistance + Low therapy"
S4 == "Scenario 4: Adaptive mix + High plasticity"
S5 == "Scenario 5: Experimental control"
S6 == "Scenario 6: Heterogeneous tumor + Sequential therapy"
S7 == "Scenario 7: Slow adaptive tumor + Reduced plasticity"

\* A name that is no key of the table.
Unknown == "Scenario 8: not in the table"

\* A decimal d/1000 as a fixed-point number.
Milli(d) == d * Half

Bundle(m1, m2, m3, e, tr) ==
  [mu |-> <<Milli(m1), Milli(m2), Milli(m3)>>, epsilon |-> Milli(e),
   transition |-> Milli(tr)]

Scenarios0 ==
  (S1 :> Bundle(900, 500, 100, 800, 1000)) @@
  (S2 :> Bundle(700, 400, 200, 500, 1000)) @@
  (S3 :> Bundle(400, 300, 100, 300, 1000)) @@
  (S4 :> Bundle(800, 500, 250, 600, 2000)) @@
  (S5 :> Bundle(600, 600, 600, 0, 0)) @@
  (S6 :> Bundle(850, 600, 300, 900, 800)) @@
  (S7 :> Bundle(750, 450, 200, 400, 500))

t_max == 300
NumSamples == 300

\* linspace as np.linspace(start, stop, num, endpoint=False) would sample.
linspace_open(start, stop, num) ==
  LET step == (stop - start) \div num
  IN [i \in 1..num |-> start + (i - 1) * step]

\* np.linspace(start, stop, num): start + i*step, the last sample set to stop.
linspace(start, stop, num) ==
  LET step == (stop - start) \div (num - 1)
  IN [i \in 1..num |-> IF i = num THEN stop ELSE start + (i - 1) * step]

t_span == <<0, t_max * Scale>>
TEval0 == linspace(t_span[1], t_span[2], NumSamples)
X0 == <<Milli(30), Milli(15), Milli(5)>>

BaseTransition0 ==
  << <<0, 1000, 500>>,
     <<1000, 0, 1000>>,
     <<200, 1000, 0>> >>

\* ------------------------------------------------------------ model
\* The transition matrix with the scenario's scalar left out.
ScaleMatrix_unscaled(m, c) == m

ScaleRow(row, c) == <<Mul(row[1], c), Mul(row[2], c), Mul(row[3], c)>>

\* base_transition * config["transition"]: a new matrix, entry by entry.
ScaleMatrix(m, c) == <<ScaleRow(m[1], c), ScaleRow(m[2], c), ScaleRow(m[3], c)>>

Sum3(v) == v[1] + v[2] + v[3]

Add3(a, b, c) ==
  <<a[1] + b[1] + c[1], a[2] + b[2] + c[2], a[3] + b[3] + c[3]>>

\* (transition_matrix @ x)[i]
MatVec(m, x, i) == Mul(m[i][1], x[1]) + Mul(m[i][2], x[2]) + Mul(m[i][3], x[3])

\* np.sum(transition_matrix, axis=1)[i]: the sum of row i.
RowSum(m, i) == m[i][1] + m[i][2] + m[i][3]

\* np.sum(transition_matrix, axis=0)[i]: the sum of column i.
ColSum(m, i) == m[1][i] + m[2][i] + m[3][i]

\* The transition term with the outflow taken from the column sums (axis=0).
transition_term_axis0(x, tm) ==
  <<MatVec(tm, x, 1) - Mul(ColSum(tm, 1), x[1]),
    MatVec(tm, x, 2) - Mul(ColSum(tm, 2), x[2]),
    MatVec(tm, x, 3) - Mul(ColSum(tm, 3), x[3])>>

\* transition_matrix @ x - np.sum(transition_matrix, axis=1) * x
transition_term(x, tm) ==
  <<MatVec(tm, x, 1) - Mul(RowSum(tm, 1), x[1]),
    MatVec(tm, x, 2) - Mul(RowSum(tm, 2), x[2]),
    MatVec(tm, x, 3) - Mul(RowSum(tm, 3), x[3])>>

\* -epsilon * mu_profile * x
treatment_term(x, eps, mu) ==
  <<Mul(Mul(-eps, mu[1]), x[1]),
    Mul(Mul(-eps, mu[2]), x[2]),
    Mul(Mul(-eps, mu[3]), x[3])>>

\* Growth without the logistic factor: r * x.
growth_term_unbounded(x, r, K) ==
  <<Mul(r[1], x[1]), Mul(r[2], x[2]), Mul(r[3], x[3])>>

\* r * x * (1 - total_tumor / K)
growth_term(x, r, K) ==
  <<Mul(Mul(r[1], x[1]), Scale - Div(Sum3(x), K)),
    Mul(Mul(r[2], x[2]), Scale - Div(Sum3(x), K)),
    Mul(Mul(r[3], x[3]), Scale - Div(Sum3(x), K))>>

\* tumor_dynamics(t, x, epsilon, mu_profile, transition_matrix): the
\* parameters eps, mu, tm stand for the last three.
tumor_dynamics(t, x, eps, mu, tm) ==
  LET r == <<Milli(30), Milli(20), Milli(15)>>
      K == Scale
      treatment_effect == treatment_term(x, eps, mu)
      growth == growth_term(x, r, K)
      transition == transition_term(x, tm)
  IN Add3(growth, treatment_effect, transition)

\* ------------------------------------------------------- integrator
\* lambda t, x: tumor_dynamics(t, x, epsilon, mu_profile, transition_matrix)
\* env holds the values the lambda's free names have when it is called.
fun(env, t, x) ==
  tumor_dynamics(t, x, env.epsilon, env.mu_profile, env.transition_matrix)

\* x + h * k
Axpy(x, h, k) == <<x[1] + Mul(h, k[1]), x[2] + Mul(h, k[2]), x[3] + Mul(h, k[3])>>

\* x + h/6 * (k1 + 2*k2 + 2*k3 + k4)
RKCombine(x, h, k1, k2, k3, k4) ==
  <<x[1] + Quot(Mul(h, k1[1] + 2 * k2[1] + 2 * k3[1] + k4[1]), 6),
    x[2] + Quot(Mul(h, k1[2] + 2 * k2[2] + 2 * k3[2] + k4[2]), 6),
    x[3] + Quot(Mul(h, k1[3] + 2 * k2[3] + 2 * k3[3] + k4[3]), 6)>>

RKStage4(env, t, x, h, k1, k2, k3) ==
  RKCombine(x, h, k1, k2, k3, fun(env, t + h, Axpy(x, h, k3)))

RKStage3(env, t, x, h, k1, k2) ==
  RKStage4(env, t, x, h, k1, k2, fun(env, t + Quot(h, 2), Axpy(x, Quot(h, 2), k2)))

RKStage2(env, t, x, h, k1) ==
  RKStage3(env, t, x, h, k1, fun(env, t + Quot(h, 2), Axpy(x, Quot(h, 2), k1)))

\* One Runge-Kutta step of the derivative fun from (t, x) over h.
RKStep(env, t, x, h) == RKStage2(env, t, x, h, fun(env, t, x))

\* The states at the sample times ts[lo+1..hi], x being the state at ts[lo].
RECURSIVE Advance(_, _, _, _, _), AdvanceFrom(_, _, _, _, _)
Advance(env, ts, x, lo, hi) ==
  IF hi <= lo THEN << >>
  ELSE IF hi = lo + 1 THEN <<RKStep(env, ts[lo], x, ts[hi] - ts[lo])>>
  ELSE AdvanceFrom(env, ts, Advance(env, ts, x, lo, (lo + hi) \div 2),
                   (lo + hi) \div 2, hi)

AdvanceFrom(env, ts, left, mid, hi) ==
  left \o Advance(env, ts, left[Len(left)], mid, hi)

\* The states at the first n sample times of ts, starting from y0 at ts[1].
Samples(env, ts, y0, n) ==
  IF n = 0 THEN << >> ELSE <<y0>> \o Advance(env, ts, y0, 1, n)

\* The OdeResult: t of shape (n,), y of shape (3, n).
OdeResult(ts, cols, n, complete) ==
  [t |-> [k \in 1..n |-> ts[k]],
   y |-> <<[k \in 1..n |-> cols[k][1]], [k \in 1..n |-> cols[k][2]],
           [k \in 1..n |-> cols[k][3]]>>,
   status |-> IF complete THEN 0 ELSE -1,
   success |-> complete]

\* The integration proper: `reached` samples of the solution through y0.
Integrate(env, y0, teval, reached) ==
  OdeResult(teval, Samples(env, teval, y0, reached), reached,
            reached = Len(teval))

\* What the loop body binds for a table entry (lines 91-94).
Bindings(table, base, k) ==
  [epsilon |-> table[k].epsilon, mu_profile |-> table[k].mu,
   transition_matrix |-> ScaleMatrix(base, table[k].transition)]

\* Integrate is a function of its arguments: the complete solutions of the
\* table's own entries are computed once and looked up afterwards.
Memo == [k \in DOMAIN Scenarios0 |->
           Integrate(Bindings(Scenarios0, BaseTransition0, k), X0, TEval0,
                     NumSamples)]

MemoKey(env) ==
  {k \in DOMAIN Scenarios0 : Bindings(Scenarios0, BaseTransition0, k) = env}

\* solve_ivp(fun, t_span, y0, t_eval=t_eval) that takes `reached` samples:
\* all of t_eval on success, fewer when a step fails.
solve_ivp(env, span, y0, teval, reached) ==
  IF reached = NumSamples /\ y0 = X0 /\ teval = TEval0 /\ MemoKey(env) # {}
  THEN Memo[CHOOSE k \in MemoKey(env) : TRUE]
  ELSE Integrate(env, y0, teval, reached)

\* The totals taken from the first column alone: every sample is divided
\* by the initial volume.
column_sums_first(y) == [k \in 1..Len(y[1]) |-> y[1][1] + y[2][1] + y[3][1]]

\* np.sum(y, axis=0): one total per column of y.
column_sums(y) == [k \in 1..Len(y[1]) |-> y[1][k] + y[2][k] + y[3][k]]

\* A float that may not be a number: num (v units), nan, or inf (v its sign).
Num(v) == [kind |-> "num", v |-> v]
NaN == [kind |-> "nan", v |-> 0]
Inf(sign) == [kind |-> "inf", v |-> sign]

\* numpy's a / b on doubles: a zero divisor gives nan or inf, never a fault.
np_divide(a, b) ==
  IF b # 0 THEN Num(Div(a, b))
  ELSE IF a = 0 THEN NaN
  ELSE IF a > 0 THEN Inf(1) ELSE Inf(-1)

\* y / total with total broadcast along the rows: y[i][k] / total[k].
broadcast_divide(y, total) ==
  [i \in Idx |-> [k \in 1..Len(y[i]) |-> np_divide(y[i][k], total[k])]]

\* np.sum(y) with the axis left out: one total for the whole array.
flat_sum(y) ==
  LET RowTotal(row) ==
        LET S[k \in 0..Len(row)] == IF k = 0 THEN 0 ELSE S[k - 1] + row[k]
        IN S[Len(row)]
  IN RowTotal(y[1]) + RowTotal(y[2]) + RowTotal(y[3])

\* results[key].y / np.sum(results[key].y)
proportions_of_flat(y) ==
  [i \in Idx |-> [k \in 1..Len(y[i]) |-> np_divide(y[i][k], flat_sum(y))]]

\* results[key].y / np.sum(results[key].y, axis=0)
proportions_of(y) == broadcast_divide(y, column_sums(y))

\* ------------------------------------------------------------ state
Unbound == "unbound"

VARIABLES
  selected_scenarios,  \* the names the multiselect returned, in order
  scenarios,           \* the scenario table
  base_transition,     \* module-level array
  x0,                  \* module-level list
  t_eval,              \* module-level array
  key,                 \* loop variable
  epsilon,             \* bound in the loop body, free in the lambda
  mu_profile,          \* bound in the loop body, free in the lambda
  transition_matrix,   \* bound in the loop body, free in the lambda
  results,             \* name -> OdeResult
  totals,              \* name -> the total curve drawn on fig1
  proportions,         \* name -> the proportion curves drawn on fig2
  pc,                  \* run | total | proportions | done | KeyError | call | returned
  pos,                 \* position of the running for loop in selected_scenarios
  calls,               \* log of the solve_ivp calls: name, samples reached, and
                       \* the values of the lambda's free names during the call
  call,                \* arguments (t, x) of a direct call of tumor_dynamics
  dxdt                 \* what that call returned

vars == <<selected_scenarios, scenarios, base_transition, x0, t_eval, key,
          epsilon, mu_profile, transition_matrix, results, totals,
          proportions, pc, pos, calls, call, dxdt>>

TableNames == DOMAIN Scenarios0
AllNames == TableNames \cup {Unknown}

\* The duplicate-free sequences over names of length at most n.
Selections(names, n) ==
  {s \in UNION {[1..m -> names] : m \in 0..n} :
     \A i, j \in DOMAIN s : s[i] = s[j] => i = j}

\* The module-level data as the script's top level leaves it (lines 39-78).
Globals ==
  /\ scenarios = Scenarios0
  /\ base_transition = BaseTransition0
  /\ x0 = X0
  /\ t_eval = TEval0

Fresh ==
  /\ key = Unbound
  /\ epsilon = Unbound
  /\ mu_profile = Unbound
  /\ transition_matrix = Unbound
  /\ results = << >>
  /\ totals = << >>
  /\ proportions = << >>
  /\ pos = 1
  /\ calls = << >>
  /\ call = Unbound
  /\ dxdt = Unbound

Init ==
  /\ selected_scenarios \in Selections(AllNames, MaxSel)
  /\ Globals
  /\ Fresh
  /\ pc = "run"

\* ---------------------------------------------------------- actions
\* The values the lambda of line 96 reads from the module's globals.
Closure(e, m, tm) == [epsilon |-> e, mu_profile |-> m, transition_matrix |-> tm]

\* The results loop with a failed solver call ending the script (as a raise
\* on `not sol.success` would).
RunScenario_abort(reached) ==
  /\ pc = "run"
  /\ pos <= Len(selected_scenarios)
  /\ key' = selected_scenarios[pos]
  /\ \/ /\ key' \notin DOMAIN scenarios
        /\ pc' = "KeyError"
        /\ UNCHANGED <<epsilon, mu_profile, transition_matrix, results, pos, calls>>
     \/ /\ key' \in DOMAIN scenarios
        /\ transition_matrix' = ScaleMatrix(base_transition, scenarios[key'].transition)
        /\ mu_profile' = scenarios[key'].mu
        /\ epsilon' = scenarios[key'].epsilon
        /\ calls' = Append(calls, [name |-> key', reached |-> reached,
                                   env |-> Closure(epsilon', mu_profile', transition_matrix')])
        /\ IF reached = Len(t_eval)
           THEN /\ results' = (key' :> solve_ivp(Closure(epsilon', mu_profile', transition_matrix'),
                                                  t_span, x0, t_eval, reached)) @@ results
                /\ pos' = pos + 1
                /\ pc' = pc
           ELSE /\ pc' = "SolverError"
                /\ UNCHANGED <<results, pos>>
  /\ UNCHANGED <<selected_scenarios, scenarios, base_transition, x0, t_eval,
                 totals, proportions, call, dxdt>>

\* The results loop scaling base_transition in place
\* (base_transition *= config["transition"]).
RunScenario_inplace(reached) ==
  /\ pc = "run"
  /\ pos <= Len(selected_scenarios)
  /\ key' = selected_scenarios[pos]
  /\ \/ /\ key' \notin DOMAIN scenarios
        /\ pc' = "KeyError"
        /\ UNCHANGED <<epsilon, mu_profile, transition_matrix, results, pos, calls,
                       base_transition>>
     \/ /\ key' \in DOMAIN scenarios
        /\ base_transition' = ScaleMatrix(base_transition, scenarios[key'].transition)
        /\ transition_matrix' = base_transition'
        /\ mu_profile' = scenarios[key'].mu
        /\ epsilon' = scenarios[key'].epsilon
        /\ results' = (key' :> solve_ivp(Closure(epsilon', mu_profile', transition_matrix'),
                                          t_span, x0, t_eval, reached)) @@ results
        /\ calls' = Append(calls, [name |-> key', reached |-> reached,
                                   env |-> Closure(epsilon', mu_profile', transition_matrix')])
        /\ pos' = pos + 1
        /\ pc' = pc
  /\ UNCHANGED <<selected_scenarios, scenarios, x0, t_eval,
                 totals, proportions, call, dxdt>>

\* One pass of the results loop (lines 90-99), the solver reaching `reached`
\* samples.  A name missing from the table raises KeyError at line 91.
RunScenario(reached) ==
  /\ pc = "run"
  /\ pos <= Len(selected_scenarios)
  /\ key' = selected_scenarios[pos]
  /\ \/ /\ key' \notin DOMAIN scenarios
        /\ pc' = "KeyError"
        /\ UNCHANGED <<epsilon, mu_profile, transition_matrix, results, pos, calls>>
     \/ /\ key' \in DOMAIN scenarios
        /\ transition_matrix' = ScaleMatrix(base_transition, scenarios[key'].transition)
        /\ mu_profile' = scenarios[key'].mu
        /\ epsilon' = scenarios[key'].epsilon
        /\ results' = (key' :> solve_ivp(Closure(epsilon', mu_profile', transition_matrix'),
                                          t_span, x0, t_eval, reached)) @@ results
        /\ calls' = Append(calls, [name |-> key', reached |-> reached,
                                   env |-> Closure(epsilon', mu_profile', transition_matrix')])
        /\ pos' = pos + 1
        /\ pc' = pc
  /\ UNCHANGED <<selected_scenarios, scenarios, base_transition, x0, t_eval,
                 totals, proportions, call, dxdt>>

\* One pass of the fig1 loop (lines 103-105).
PlotTotal ==
  /\ pc = "total"
  /\ pos <= Len(selected_scenarios)
  /\ key' = selected_scenarios[pos]
  /\ totals' = (key' :> column_sums(results[key'].y)) @@ totals
  /\ pos' = pos + 1
  /\ UNCHANGED <<selected_scenarios, scenarios, base_transition, x0, t_eval,
                 epsilon, mu_profile, transition_matrix, results, proportions,
                 pc, calls, call, dxdt>>

\* One pass of the fig2 loop (lines 116-120).
PlotProportions ==
  /\ pc = "proportions"
  /\ pos <= Len(selected_scenarios)
  /\ key' = selected_scenarios[pos]
  /\ proportions' = (key' :> proportions_of(results[key'].y)) @@ proportions
  /\ pos' = pos + 1
  /\ UNCHANGED <<selected_scenarios, scenarios, base_transition, x0, t_eval,
                 epsilon, mu_profile, transition_matrix, results, totals,
                 pc, calls, call, dxdt>>

NextStage(stage) ==
  CASE stage = "run" -> "total"
    [] stage = "total" -> "proportions"
    [] stage = "proportions" -> "done"

\* A for loop runs out of names: the script goes on to the next one.
LoopEnd ==
  /\ pc \in {"run", "total", "proportions"}
  /\ pos > Len(selected_scenarios)
  /\ pc' = NextStage(pc)
  /\ pos' = 1
  /\ UNCHANGED <<selected_scenarios, scenarios, base_transition, x0, t_eval, key,
                 epsilon, mu_profile, transition_matrix, results, totals,
                 proportions, calls, call, dxdt>>

\* The run as the repository's solver behaves on the table: every
\* integration reaches all of t_eval.
Next ==
  \/ RunScenario(Len(t_eval))
  \/ PlotTotal
  \/ PlotProportions
  \/ LoopEnd

Spec == Init /\ [][Next]_vars

\* ------------------------------------------- the run, solver failing
\* solve_ivp reports a failed step (the step size falling below the spacing
\* of doubles) by returning status -1 with the samples it reached; it raises
\* only on malformed arguments, which the script never passes.  On the
\* table's parameters no step fails, so here which call fails, and after how
\* many samples, is the environment's choice.
InitFault ==
  /\ selected_scenarios \in Selections(TableNames, MaxSel)
  /\ Globals
  /\ Fresh
  /\ pc = "run"

NextFault ==
  \/ \E reached \in {1, MaxReached, Len(t_eval)} : RunScenario(reached)
  \/ PlotTotal
  \/ PlotProportions
  \/ LoopEnd

SpecFault == InitFault /\ [][NextFault]_vars

\* ------------------------------------- tumor_dynamics called directly
GridStep == Scale \div 8 + 7
Grid == {i * GridStep : i \in 0..MaxGrid}
GridStates == {<<a, b, c>> : a \in Grid, b \in Grid, c \in Grid} \cup {X0}
TimeArgs == {0, Milli(500), t_max * Scale}

\* The globals as lines 91-94 leave them for some table entry, and the
\* arguments of a call of tumor_dynamics about to be made.
InitDyn ==
  /\ Globals
  /\ \E k \in TableNames :
       /\ selected_scenarios = <<k>>
       /\ key = k
       /\ epsilon = Bindings(scenarios, base_transition, k).epsilon
       /\ mu_profile = Bindings(scenarios, base_transition, k).mu_profile
       /\ transition_matrix = Bindings(scenarios, base_transition, k).transition_matrix
  /\ results = << >>
  /\ totals = << >>
  /\ proportions = << >>
  /\ pos = 1
  /\ calls = << >>
  /\ call \in [t : TimeArgs, x : GridStates]
  /\ dxdt = Unbound
  /\ pc = "call"

\* The lambda of line 96 applied once to (call.t, call.x).
CallDynamics ==
  /\ pc = "call"
  /\ dxdt' = fun(Closure(epsilon, mu_profile, transition_matrix), call.t, call.x)
  /\ pc' = "returned"
  /\ UNCHANGED <<selected_scenarios, scenarios, base_transition, x0, t_eval, key,
                 epsilon, mu_profile, transition_matrix, results, totals,
                 proportions, pos, calls, call>>

NextDyn == CallDynamics

SpecDyn == InitDyn /\ [][NextDyn]_vars

\* ---------------------------- the proportions of arbitrary trajectories
ColVals == {0, Milli(30)}
Columns == {<<a, b, c>> : a \in ColVals, b \in ColVals, c \in ColVals}
Trajectories == UNION {[1..n -> Columns] : n \in 1..MaxCols}

\* The fig2 loop about to start on a result whose columns are arbitrary
\* non-negative state vectors, the all-zero one among them.
InitProp ==
  /\ Globals
  /\ selected_scenarios = <<S1>>
  /\ key = S1
  /\ epsilon = Bindings(scenarios, base_transition, S1).epsilon
  /\ mu_profile = Bindings(scenarios, base_transition, S1).mu_profile
  /\ transition_matrix = Bindings(scenarios, base_transition, S1).transition_matrix
  /\ \E cols \in Trajectories :
       /\ results = (S1 :> OdeResult(t_eval, cols, Len(cols), FALSE))
       /\ totals = (S1 :> column_sums(results[S1].y))
       /\ calls = <<[name |-> S1, reached |-> Len(cols),
                     env |-> Closure(epsilon, mu_profile, transition_matrix)]>>
  /\ proportions = << >>
  /\ pos = 1
  /\ call = Unbound
  /\ dxdt = Unbound
  /\ pc = "proportions"

NextProp ==
  \/ PlotProportions
  \/ LoopEnd

SpecProp == InitProp /\ [][NextProp]_vars

\* ----------------------------------------------------------- claims
Range(seq) == {seq[i] : i \in DOMAIN seq}

\* The results loop ran to its end.
PastRun == pc \in {"total", "proportions", "done"}

ColumnTotal(y, k) == y[1][k] + y[2][k] + y[3][k]

\* C1: a selection holding a name that is not in the table fails with the
\* unknown-scenario error before any integration starts: at the error no
\* solve_ivp call has been made and results holds no trajectory, wherever
\* the unknown name stands in the selection.
C1_FailsBeforeAnyIntegration ==
  pc = "KeyError" => calls = << >> /\ DOMAIN results = {}

C3_TrajectoryShape ==
  (PastRun /\ selected_scenarios # << >>) =>
    /\ DOMAIN results = Range(selected_scenarios)
    /\ \A name \in DOMAIN results :
         LET sol == results[name]
         IN /\ Len(sol.t) = 300
            /\ sol.t[1] = 0
            /\ sol.t[300] = 300 * Scale
            /\ \A k \in 1..299 : sol.t[k] < sol.t[k + 1]
            /\ Len(sol.y) = 3
            /\ \A i \in Idx : Len(sol.y[i]) = Len(sol.t)

C3_Witness ==
  /\ pc = "done"
  /\ Len(selected_scenarios) = 2
  /\ Cardinality(DOMAIN results) = 2
  /\ \A name \in DOMAIN results : Len(results[name].t) = 300

\* The derivative as the specification writes it, component i:
\* r_i*x_i*(1 - sum(x)/K) - epsilon*mu_i*x_i
\*   + sum over j # i of T[i][j]*x_j - x_i * sum over j # i of T[i][j].
StatedDerivative(x, eps, mu, tm, i) ==
  LET r == <<Milli(30), Milli(20), Milli(15)>>
      K == Scale
      others == Idx \ {i}
      j1 == CHOOSE j \in others : \A j2 \in others : j <= j2
      j2 == CHOOSE j \in others : j # j1
  IN Mul(Mul(r[i], x[i]), Scale - Div(x[1] + x[2] + x[3], K))
     - Mul(Mul(eps, mu[i]), x[i])
     + (Mul(tm[i][j1], x[j1]) + Mul(tm[i][j2], x[j2]))
     - Mul(x[i], tm[i][j1] + tm[i][j2])

\* C4: for every state vector and every scenario of the table,
\* tumor_dynamics returns the stated derivative with r = (0.03, 0.02, 0.015)
\* and K = 1.0, and returns the same for every time argument.
C4_DerivativeFormula ==
  pc = "returned" =>
    LET c == Scenarios0[key]
        tm == ScaleMatrix(BaseTransition0, c.transition)
    IN /\ \A i \in Idx :
            dxdt[i] = StatedDerivative(call.x, c.epsilon, c.mu, tm, i)
       /\ \A t \in TimeArgs :
            tumor_dynamics(t, call.x, epsilon, mu_profile, transition_matrix) = dxdt

C4_Witness ==
  /\ pc = "returned"
  /\ key = S4
  /\ call.x = X0
  /\ call.t = t_max * Scale
  /\ dxdt # <<0, 0, 0>>

\* C5: with a transition scalar of 0 the state-transition term is the zero
\* vector for every state vector, so the derivative is growth plus
\* treatment effect only.
C5_NoTransition ==
  (pc = "returned" /\ scenarios[key].transition = 0) =>
    /\ transition_term(call.x, transition_matrix) = <<0, 0, 0>>
    /\ dxdt = Add3(growth_term(call.x, <<Milli(30), Milli(20), Milli(15)>>, Scale),
                   treatment_term(call.x, epsilon, mu_profile),
                   <<0, 0, 0>>)

C5_Witness ==
  /\ pc = "returned"
  /\ key = S5
  /\ scenarios[key].transition = 0
  /\ call.x[1] > call.x[3]
  /\ call.x[3] > 0
  /\ transition_term(call.x, BaseTransition0) # <<0, 0, 0>>

PropSum(p, k) == p[1][k].v + p[2][k].v + p[3][k].v

AllNumbers(p, k) == \A i \in Idx : p[i][k].kind = "num"

\* C6, as stated: at every sample with a total above 0 the three
\* proportions (component / total) sum to 1.0.
C6_SumIsOne ==
  \A name \in DOMAIN proportions :
    \A k \in 1..Len(results[name].t) :
      ColumnTotal(results[name].y, k) > 0 =>
        /\ AllNumbers(proportions[name], k)
        /\ PropSum(proportions[name], k) = Scale

\* C6, amended: at every sample with a total above 0 the three proportions
\* sum to 1.0 up to the rounding of the three quotients, fewer than 3 units
\* in the last place.
C6_SumIsOneWithinRounding ==
  \A name \in DOMAIN proportions :
    \A k \in 1..Len(results[name].t) :
      ColumnTotal(results[name].y, k) > 0 =>
        /\ AllNumbers(proportions[name], k)
        /\ Abs(PropSum(proportions[name], k) - Scale) < 3

C6_Witness ==
  /\ pc = "done"
  /\ S5 \in DOMAIN proportions
  /\ ColumnTotal(results[S5].y, 300) > 0
  /\ PropSum(proportions[S5], 300) # Scale
  /\ PropSum(proportions[S5], 1) = Scale

C8_Threshold ==
  /\ S3 \in DOMAIN totals =>
       /\ totals[S3][1] = Milli(50)
       /\ \E k \in 1..Len(totals[S3]) : totals[S3][k] > Milli(200)
  /\ S1 \in DOMAIN totals =>
       /\ totals[S1][1] = Milli(50)
       /\ \A k \in 1..Len(totals[S1]) : totals[S1][k] < Milli(200)

C10_Independent ==
  /\ scenarios = Scenarios0
  /\ base_transition = BaseTransition0
  /\ x0 = X0
  /\ t_eval = TEval0
  /\ \A i \in DOMAIN calls :
       calls[i].env = Bindings(Scenarios0, BaseTransition0, calls[i].name)
  /\ \A name \in DOMAIN results : results[name] = Memo[name]

C10_Witness ==
  /\ pc = "done"
  /\ selected_scenarios = <<S4, S5>>
  /\ Len(calls) = 2
  /\ calls[1].env # calls[2].env
  /\ results[S4] # results[S5]
====
